---- MODULE Spec2Model ----
(***************************************************************************)
(* SharePoint File Analyzer: main() and process_files() of main.py, the    *)
(* text extraction of sharepoint_client.py, the analyzer of                *)
(* ai_analyzer.py, the settings of config.py and the workbook of           *)
(* excel_generator.py.                                                     *)
(*                                                                         *)
(* A Python str is a sequence of tokens (each token a TLA+ string): a      *)
(* filename is <<stem, suffix>>, an f-string is the concatenation of its   *)
(* literal parts and its arguments.  None is NoText for an optional str.   *)
(***************************************************************************)
EXTENDS Integers, Sequences, FiniteSets, TLC

VARIABLES
    Config,            \* class attributes of config.Config (read from the environment)
    pc,                \* position of main()
    exit_code,         \* process exit status, Running until the process ends
    sharepoint_url,    \* main: sharepoint_url
    folder_path,       \* main: folder_path
    username,          \* main: username
    password,          \* main: password
    ctx,               \* SharePointClient.ctx
    ai_client,         \* AIAnalyzer.client / AIAnalyzer.model
    files,             \* main: files (result of list_files)
    supported_files,   \* process_files: supported_files
    idx,               \* process_files: position of the for loop in supported_files
    content_bytes,     \* get_file_content_as_text: content_bytes
    content,           \* process_files: content
    analysis,          \* process_files: analysis
    analysis_results,  \* process_files: analysis_results
    errors,            \* process_files: errors
    reply,             \* what the text-generation service answered to the last call
    calls,             \* analyzer methods invoked so far, in order
    llm_calls,         \* prompts sent to the text-generation service so far
    fetched,           \* server-relative urls download_file was asked for
    wb,                \* ExcelGenerator.wb
    saved,             \* the report file on disk
    save_calls,        \* number of times ExcelGenerator.save ran
    interrupts         \* KeyboardInterrupts delivered so far

vars == <<Config, pc, exit_code, sharepoint_url, folder_path, username, password,
          ctx, ai_client, files, supported_files, idx, content_bytes, content,
          analysis, analysis_results, errors, reply, calls, llm_calls, fetched,
          wb, saved, save_calls, interrupts>>

(***************************************************************************)
(* Bounds of the model.                                                    *)
(***************************************************************************)
MaxFiles == 2
MaxReplyLen == 4
MaxInterrupts == 1
MaxOver == 3

(***************************************************************************)
(* Program constants.                                                      *)
(***************************************************************************)
MAX_FILE_SIZE_MB == 10
DefaultMaxContentLength == 8000
SUPPORTED_FILE_TYPES ==
    <<".txt", ".pdf", ".docx", ".doc", ".xlsx", ".xls", ".pptx", ".ppt",
      ".md", ".csv", ".json", ".xml">>

Range(s) == {s[i] : i \in DOMAIN s}

Running == -1

(***************************************************************************)
(* Strings.                                                                *)
(***************************************************************************)
IsSpace(t) == t \in {" ", "\n"}

RECURSIVE LStrip(_)
LStrip(s) == IF s # <<>> /\ IsSpace(Head(s)) THEN LStrip(Tail(s)) ELSE s

RECURSIVE RStrip(_)
RStrip(s) ==
    IF s # <<>> /\ IsSpace(s[Len(s)]) THEN RStrip(SubSeq(s, 1, Len(s) - 1)) ELSE s

\* str.strip()
Strip(s) == RStrip(LStrip(s))

\* sep.join(parts)
RECURSIVE Join(_, _)
Join(parts, sep) ==
    IF parts = <<>> THEN <<>>
    ELSE IF Len(parts) = 1 THEN parts[1]
    ELSE parts[1] \o <<sep>> \o Join(Tail(parts), sep)

\* str.lower() on a filename suffix
Lower(t) ==
    CASE t = ".TXT" -> ".txt"
      [] t = ".PDF" -> ".pdf"
      [] t = ".DOCX" -> ".docx"
      [] t = ".CSV" -> ".csv"
      [] OTHER -> t

\* os.path.splitext(name)[1].lower() of sharepoint_client.list_files
Extension(name) == Lower(name[2])

Contains(s, t) == \E i \in DOMAIN s : s[i] = t

NoText == [isNone |-> TRUE, text |-> <<>>]
Text(s) == [isNone |-> FALSE, text |-> s]

(***************************************************************************)
(* sharepoint_client.py: text extraction.  The bytes of a remote file are  *)
(* a record: raw is the byte string (BadByte is a byte that is not valid   *)
(* UTF-8), valid says whether PdfReader / Document accept the bytes, parts *)
(* are the page or paragraph texts of an accepted document.                *)
(***************************************************************************)
BadByte == "\\xff"

\* bytes.decode('utf-8', errors='ignore')
DecodeIgnore(raw) == SelectSeq(raw, LAMBDA b : b # BadByte)

\* SharePointClient._extract_pdf_text
ExtractPdfText(bytes) ==
    IF bytes.valid
    THEN Join(bytes.parts, "\n")
    ELSE <<"[Error extracting PDF text: ", "PdfReadError", "]">>

\* SharePointClient._extract_docx_text
ExtractDocxText(bytes) ==
    IF bytes.valid
    THEN Join(bytes.parts, "\n")
    ELSE <<"[Error extracting DOCX text: ", "BadZipFile", "]">>

\* the body of the bare except of get_file_content_as_text
UnableToExtract(file_extension) ==
    <<"[Unable to extract text from ", file_extension, " file]">>

\* the branch get_file_content_as_text takes for an extension
ExtractBranch(file_extension) ==
    IF file_extension = ".txt" THEN "txt"
    ELSE IF file_extension = ".pdf" THEN "pdf"
    ELSE IF file_extension \in {".docx", ".doc"} THEN "docx"
    ELSE "other"

\* SharePointClient.get_file_content_as_text after download_file returned
ExtractText(bytes, file_extension) ==
    CASE ExtractBranch(file_extension) = "txt" -> DecodeIgnore(bytes.raw)
      [] ExtractBranch(file_extension) = "pdf" -> ExtractPdfText(bytes)
      [] ExtractBranch(file_extension) = "docx" -> ExtractDocxText(bytes)
      [] OTHER -> DecodeIgnore(bytes.raw)

(***************************************************************************)
(* ai_analyzer.py.  A reply of the text-generation service is              *)
(* [kind, text]: kind "error" when chat.completions.create raises, "none"  *)
(* when message.content is None, "text" otherwise.  A reply text is a      *)
(* sequence of tokens: Fence is three backquotes, "json" the language tag, a token of   *)
(* JsonTokens a complete JSON value, "prose" text that is not JSON.        *)
(***************************************************************************)
Fence == "<fence>"
JsonTokens == {"{title,summary}", "{title}", "{summary}", "{}", "[]"}

\* the object a JSON token denotes: whether it is a dict, and its keys
JsonIsObject(tok) == tok # "[]"
JsonHas(tok, key) ==
    CASE key = "title" -> tok \in {"{title,summary}", "{title}"}
      [] key = "summary" -> tok \in {"{title,summary}", "{summary}"}
      [] OTHER -> FALSE
JsonTitle == <<"T">>
JsonSummary == <<"S">>
UnableSummary == <<"Unable to generate summary">>
TruncationMarker == "\n... [content truncated]"

\* the part of s before the first token t (all of s when t does not occur)
RECURSIVE Before(_, _)
Before(s, t) ==
    IF s = <<>> \/ Head(s) = t THEN <<>> ELSE <<Head(s)>> \o Before(Tail(s), t)

\* response_text.split(fence)[1] of a text that starts with the fence
SplitSecond(s) == Before(Tail(s), Fence)

\* analyze_document lines 80-89: strip, then remove a markdown code block
Unfence(text) ==
    LET t1 == Strip(text) IN
    IF t1 # <<>> /\ Head(t1) = Fence
    THEN LET seg == SplitSecond(t1)
             seg2 == IF seg # <<>> /\ Head(seg) = "json" THEN Tail(seg) ELSE seg
         IN Strip(seg2)
    ELSE t1

\* json.loads: succeeds on one JSON value surrounded by optional whitespace
JsonLoadsOk(text) == Len(Strip(text)) = 1 /\ Strip(text)[1] \in JsonTokens
JsonLoads(text) == Strip(text)[1]

\* Truncate that also cuts a text of exactly max_content_length
TruncateAtLimit(text, max_content_length) ==
    IF Len(text) >= max_content_length
    THEN SubSeq(text, 1, max_content_length) \o <<TruncationMarker>>
    ELSE text

\* content[:max_content_length] + marker, lines 42-43
Truncate(text, max_content_length) ==
    IF Len(text) > max_content_length
    THEN SubSeq(text, 1, max_content_length) \o <<TruncationMarker>>
    ELSE text

\* the f-string of lines 46-59
Prompt(filename, text) ==
    <<"Analyze the following document ... Document filename: ">> \o filename
        \o <<"\n\nDocument content:\n">> \o text
        \o <<"\n\nPlease respond in the following JSON format: ...">>

\* AnalysisError with the failure dropped: a blank result
AnalysisErrorBlank(filename, message) ==
    [title |-> <<>>, summary |-> <<>>]

\* the except branch of analyze_document, lines 98-103
AnalysisError(filename, message) ==
    [title |-> filename, summary |-> <<"Error during analysis: ", message>>]

\* result.get('summary', 'Unable to generate summary')
GetSummary(result) ==
    IF JsonHas(result, "summary") THEN JsonSummary ELSE UnableSummary

\* GetTitle that always keeps the filename
GetTitleFilenameOnly(result, filename) == filename

\* result.get('title', filename)
GetTitle(result, filename) ==
    IF JsonHas(result, "title") THEN JsonTitle ELSE filename

\* AIAnalyzer.analyze_document: the dictionary it returns
AnalyzeDocument(filename, text, max_content_length, r) ==
    IF r.kind = "error" THEN AnalysisError(filename, "APIConnectionError")
    ELSE IF r.kind = "none" THEN AnalysisError(filename, "AttributeError")
    ELSE LET response_text == Unfence(r.text) IN
         IF ~JsonLoadsOk(response_text)
         THEN AnalysisError(filename, "JSONDecodeError")
         ELSE LET result == JsonLoads(response_text) IN
              IF ~JsonIsObject(result)
              THEN AnalysisError(filename, "AttributeError")
              ELSE [title |-> GetTitle(result, filename),
                    summary |-> GetSummary(result)]

\* the prompt analyze_document sends
AnalyzeDocumentPrompt(filename, text, max_content_length) ==
    Prompt(filename, Truncate(text, max_content_length))

\* AIAnalyzer.analyze_file_metadata
AnalyzeFileMetadata(filename, extension) ==
    [title |-> filename,
     summary |-> <<"File type: ", extension,
                   ". Content analysis not available for this file type.">>]

(***************************************************************************)
(* config.py.  A setting is a string, "" when the environment leaves it    *)
(* unset.                                                                  *)
(***************************************************************************)
Truthy(v) == v \notin {"", "<None>"}
None == "<None>"

EnvEmpty ==
    [SHAREPOINT_SITE_URL |-> "", SHAREPOINT_USERNAME |-> "",
     SHAREPOINT_PASSWORD |-> "", SHAREPOINT_CLIENT_ID |-> "",
     SHAREPOINT_CLIENT_SECRET |-> "", SHAREPOINT_TENANT_ID |-> "",
     OPENAI_API_KEY |-> "", AZURE_OPENAI_ENDPOINT |-> "",
     AZURE_OPENAI_API_KEY |-> "", AZURE_OPENAI_DEPLOYMENT |-> ""]

EnvBasic ==
    [EnvEmpty EXCEPT !.SHAREPOINT_SITE_URL = "https://env.sharepoint.com",
                     !.SHAREPOINT_USERNAME = "env-user",
                     !.SHAREPOINT_PASSWORD = "env-password",
                     !.OPENAI_API_KEY = "sk-env"]

EnvAzure ==
    [EnvEmpty EXCEPT !.SHAREPOINT_SITE_URL = "https://env.sharepoint.com",
                     !.SHAREPOINT_CLIENT_ID = "env-client",
                     !.SHAREPOINT_CLIENT_SECRET = "env-secret",
                     !.SHAREPOINT_TENANT_ID = "env-tenant",
                     !.AZURE_OPENAI_ENDPOINT = "https://env.openai.azure.com",
                     !.AZURE_OPENAI_API_KEY = "az-env",
                     !.AZURE_OPENAI_DEPLOYMENT = "env-deployment"]

\* the environments the program is started in
EnvConfigs ==
    {EnvEmpty, EnvBasic, EnvAzure,
     [EnvEmpty EXCEPT !.OPENAI_API_KEY = "sk-env"],
     [EnvBasic EXCEPT !.SHAREPOINT_SITE_URL = ""],
     [EnvBasic EXCEPT !.SHAREPOINT_PASSWORD = ""],
     [EnvBasic EXCEPT !.OPENAI_API_KEY = ""],
     [EnvAzure EXCEPT !.SHAREPOINT_TENANT_ID = ""]}

\* Config.validate: the list of errors
Validate(cfg) ==
    LET has_basic_auth == Truthy(cfg.SHAREPOINT_USERNAME) /\ Truthy(cfg.SHAREPOINT_PASSWORD)
        has_azure_auth == /\ Truthy(cfg.SHAREPOINT_CLIENT_ID)
                          /\ Truthy(cfg.SHAREPOINT_CLIENT_SECRET)
                          /\ Truthy(cfg.SHAREPOINT_TENANT_ID)
        has_openai == Truthy(cfg.OPENAI_API_KEY)
        has_azure_openai == /\ Truthy(cfg.AZURE_OPENAI_ENDPOINT)
                            /\ Truthy(cfg.AZURE_OPENAI_API_KEY)
                            /\ Truthy(cfg.AZURE_OPENAI_DEPLOYMENT)
    IN  (IF ~Truthy(cfg.SHAREPOINT_SITE_URL)
         THEN <<"SHAREPOINT_SITE_URL is not set">> ELSE <<>>)
        \o (IF ~(has_basic_auth \/ has_azure_auth)
            THEN <<"SharePoint authentication credentials not set">> ELSE <<>>)
        \o (IF ~(has_openai \/ has_azure_openai)
            THEN <<"AI API credentials not set">> ELSE <<>>)

\* Config.is_using_azure_openai
IsUsingAzureOpenai(cfg) ==
    /\ Truthy(cfg.AZURE_OPENAI_ENDPOINT)
    /\ Truthy(cfg.AZURE_OPENAI_API_KEY)
    /\ Truthy(cfg.AZURE_OPENAI_DEPLOYMENT)

\* Config.MAX_FILE_SIZE_MB * 1024 * 1024 of process_files
MaxBytes == MAX_FILE_SIZE_MB * 1024 * 1024

(***************************************************************************)
(* The remote folder: what list_files and download_file can return.        *)
(***************************************************************************)
Names == {<<"a", ".txt">>, <<"b", ".PDF">>, <<"c", ".docx">>,
          <<"d", ".csv">>, <<"e", ".bin">>}
Sizes == {MaxBytes, MaxBytes + 1}

\* the file_info dictionary list_files builds for one file
FileInfo(name, size) ==
    [name |-> name,
     server_relative_url |-> <<"/sites/s/">> \o name,
     size |-> size,
     time_created |-> "2024-01-01T00:00:00Z",
     time_modified |-> "2024-02-02T00:00:00Z",
     extension |-> Extension(name)]

Descriptors == {FileInfo(n, z) : n \in Names, z \in Sizes}

RECURSIVE SeqsUpTo(_, _)
SeqsUpTo(S, n) ==
    IF n = 0 THEN {<<>>}
    ELSE LET shorter == SeqsUpTo(S, n - 1)
         IN shorter \cup {Append(q, x) : q \in {r \in shorter : Len(r) = n - 1}, x \in S}

Listings == SeqsUpTo(Descriptors, MaxFiles)

NoBytes == [ok |-> FALSE, raw |-> <<>>, valid |-> FALSE, parts |-> <<>>]
Payloads ==
    {[ok |-> TRUE, raw |-> <<"a">>, valid |-> TRUE, parts |-> << <<"a">>, <<"b">> >>],
     [ok |-> TRUE, raw |-> <<" ", BadByte>>, valid |-> TRUE, parts |-> << <<" ">>, <<>> >>],
     [ok |-> TRUE, raw |-> <<BadByte>>, valid |-> FALSE, parts |-> <<>>]}

\* the replies the text-generation service gives during a run
NoReply == [kind |-> "idle", text |-> <<>>]
RunReplies ==
    {[kind |-> "error", text |-> <<>>],
     [kind |-> "text", text |-> <<Fence, "json", "\n", "{title,summary}", "\n", Fence>>]}

(***************************************************************************)
(* excel_generator.py.                                                     *)
(***************************************************************************)
\* round(size / 1024, 2), in hundredths of a kibibyte
SizeKb(size) ==
    LET q == (size * 100) \div 1024
        r == (size * 100) % 1024
    IN IF r > 512 \/ (r = 512 /\ q % 2 = 1) THEN q + 1 ELSE q

\* ExcelGenerator.__init__: an empty workbook with the sheet "File Analysis"
NewWorkbook ==
    [sheets |-> <<"File Analysis">>, total |-> -1, rows |-> <<>>, error_rows |-> <<>>]

\* ExcelGenerator.create_report: the data rows under the header
CreateReport(book, results) ==
    [book EXCEPT
        !.total = Len(results),
        !.rows = [i \in 1..Len(results) |->
                    <<i, results[i].filename, results[i].title, results[i].summary,
                      SizeKb(results[i].size), results[i].time_modified>>]]

\* AddErrorSheet that writes the rows from the last error to the first
AddErrorSheetReversed(book, errs) ==
    IF errs = <<>> THEN book
    ELSE [book EXCEPT
            !.sheets = Append(@, "Errors"),
            !.error_rows = [i \in 1..Len(errs) |->
                              <<errs[Len(errs) + 1 - i].filename,
                                errs[Len(errs) + 1 - i].error_type,
                                errs[Len(errs) + 1 - i].error_message>>]]

\* ExcelGenerator.add_error_sheet
AddErrorSheet(book, errs) ==
    IF errs = <<>> THEN book
    ELSE [book EXCEPT
            !.sheets = Append(@, "Errors"),
            !.error_rows = [i \in 1..Len(errs) |->
                              <<errs[i].filename, errs[i].error_type,
                                errs[i].error_message>>]]

NoWorkbook == [sheets |-> <<>>, total |-> -1, rows |-> <<>>, error_rows |-> <<>>]

(***************************************************************************)
(* main.py.                                                                *)
(***************************************************************************)
\* main lines 139-141
UseEnvConfig(cfg) ==
    Truthy(cfg.SHAREPOINT_SITE_URL)
        /\ (Truthy(cfg.SHAREPOINT_USERNAME) \/ Truthy(cfg.SHAREPOINT_CLIENT_ID))

\* get_user_input: what it returns when the operator types typed
GetUserInput(typed, default) ==
    IF Truthy(default) THEN (IF typed # "" THEN typed ELSE default) ELSE typed

\* IsSupported without the size ceiling
IsSupportedAnySize(f) == f.extension \in Range(SUPPORTED_FILE_TYPES)

\* the filter of process_files, lines 76-80
IsSupported(f) ==
    f.extension \in Range(SUPPORTED_FILE_TYPES) /\ f.size <= MaxBytes

\* one entry of errors
ErrorEntry(filename, error_type, message) ==
    [filename |-> filename, error_type |-> error_type, error_message |-> message]

\* one entry of analysis_results, lines 114-121
ResultEntry(file_info, a) ==
    [filename |-> file_info.name, title |-> a.title, summary |-> a.summary,
     size |-> file_info.size, time_modified |-> file_info.time_modified,
     extension |-> file_info.extension]

\* HasText without the strip
HasTextNoStrip(c) == ~c.isNone /\ c.text # <<>>

\* process_files line 108
HasText(c) == ~c.isNone /\ c.text # <<>> /\ Len(Strip(c.text)) > 0

\* list.insert(0, x)
ListPrepend(list, x) == <<x>> \o list

\* list.append
ListAppend(list, x) == Append(list, x)

\* the position of the loop after the file at i
AfterFile(i) == IF i >= Len(supported_files) THEN "returned" ELSE "download"

Init ==
    /\ Config \in EnvConfigs
    /\ pc = "start"
    /\ exit_code = Running
    /\ sharepoint_url = None
    /\ folder_path = None
    /\ username = None
    /\ password = None
    /\ ctx = None
    /\ ai_client = None
    /\ files = <<>>
    /\ supported_files = <<>>
    /\ idx = 0
    /\ content_bytes = NoBytes
    /\ content = NoText
    /\ analysis = [title |-> <<>>, summary |-> <<>>]
    /\ analysis_results = <<>>
    /\ errors = <<>>
    /\ reply = NoReply
    /\ calls = <<>>
    /\ llm_calls = <<>>
    /\ fetched = <<>>
    /\ wb = NoWorkbook
    /\ saved = NoWorkbook
    /\ save_calls = 0
    /\ interrupts = 0

\* sys.exit(code), or main returning (code 0)
Exit(code) == pc' = "done" /\ exit_code' = code

runVars == <<sharepoint_url, folder_path, username, password, ctx, ai_client>>
batchVars == <<files, supported_files, idx, content_bytes, content, analysis,
               analysis_results, errors, reply, calls, llm_calls, fetched>>
sinkVars == <<wb, saved, save_calls>>

\* main lines 136-149: validate_configuration, sys.exit(1) on errors
ValidateConfiguration ==
    /\ pc = "start"
    /\ IF Validate(Config) # <<>>
       THEN Exit(1)
       ELSE pc' = "inputs" /\ UNCHANGED exit_code
    /\ UNCHANGED <<Config, runVars, batchVars, sinkVars, interrupts>>

\* main lines 152-173: site url, folder path and credentials
GetInputs ==
    /\ pc = "inputs"
    /\ \E typedUrl \in {"", "https://typed.sharepoint.com"}, typedFolder \in {""} :
         /\ sharepoint_url' =
               IF UseEnvConfig(Config) THEN Config.SHAREPOINT_SITE_URL
               ELSE GetUserInput(typedUrl,
                                 "https://yourdomain.sharepoint.com/sites/yoursite")
         /\ folder_path' = GetUserInput(typedFolder, "Shared Documents")
    /\ username' = IF UseEnvConfig(Config) THEN None
                   ELSE GetUserInput("typed-user", "")
    /\ password' = IF UseEnvConfig(Config) THEN None
                   ELSE GetUserInput("typed-password", "")
    /\ pc' = "connect"
    /\ UNCHANGED <<Config, exit_code, ctx, ai_client, batchVars, sinkVars, interrupts>>

\* SharePointClient.connect: the credentials it picks, "" when it raises ValueError
ConnectWith(cfg, user, pass) ==
    LET u == IF Truthy(user) THEN user ELSE cfg.SHAREPOINT_USERNAME
        p == IF Truthy(pass) THEN pass ELSE cfg.SHAREPOINT_PASSWORD
    IN IF Truthy(u) /\ Truthy(p) THEN "UserCredential"
       ELSE IF Truthy(cfg.SHAREPOINT_CLIENT_ID) /\ Truthy(cfg.SHAREPOINT_CLIENT_SECRET)
       THEN "ClientCredential"
       ELSE ""

\* main lines 180-183: SharePointClient(...), connect, AIAnalyzer()
Connect ==
    /\ pc = "connect"
    /\ IF ConnectWith(Config, username, password) = ""
       THEN Exit(1) /\ UNCHANGED <<ctx, ai_client>>
       ELSE /\ ctx' = ConnectWith(Config, username, password)
            /\ ai_client' = IF IsUsingAzureOpenai(Config) THEN "AzureOpenAI" ELSE "OpenAI"
            /\ pc' = "list"
            /\ UNCHANGED exit_code
    /\ UNCHANGED <<Config, sharepoint_url, folder_path, username, password,
                   batchVars, sinkVars, interrupts>>

\* main lines 187-191: list_files returns a listing, sys.exit(0) when it is empty
ListFiles ==
    /\ pc = "list"
    /\ \E listing \in Listings :
         /\ files' = listing
         /\ IF listing = <<>> THEN Exit(0) ELSE pc' = "filter" /\ UNCHANGED exit_code
    /\ UNCHANGED <<Config, runVars, supported_files, idx, content_bytes, content,
                   analysis, analysis_results, errors, reply, calls, llm_calls,
                   fetched, sinkVars, interrupts>>

\* list_files re-raises (lines 92-94): main's except Exception, sys.exit(1)
ListFilesRaises ==
    /\ pc = "list"
    /\ Exit(1)
    /\ UNCHANGED <<Config, runVars, batchVars, sinkVars, interrupts>>

\* process_files lines 72-84: the accumulators and the filter
Filter ==
    /\ pc = "filter"
    /\ analysis_results' = <<>>
    /\ errors' = <<>>
    /\ supported_files' = SelectSeq(files, IsSupported)
    /\ idx' = 1
    /\ pc' = IF SelectSeq(files, IsSupported) = <<>> THEN "returned" ELSE "download"
    /\ UNCHANGED <<Config, exit_code, runVars, files, content_bytes, content, analysis,
                   reply, calls, llm_calls, fetched, sinkVars, interrupts>>

\* Download whose handler abandons the file after recording the error
DownloadSkipsFile ==
    /\ pc = "download"
    /\ LET file_info == supported_files[idx] IN
       /\ fetched' = Append(fetched, file_info.server_relative_url)
       /\ \/ \E b \in Payloads :
               /\ content_bytes' = b
               /\ pc' = "extract"
               /\ UNCHANGED <<content, errors, idx>>
          \/ /\ content_bytes' = NoBytes
             /\ content' = NoText
             /\ errors' = ListAppend(errors,
                    ErrorEntry(file_info.name, "Content Extraction Failed",
                               <<"download failed">>))
             /\ idx' = idx + 1
             /\ pc' = AfterFile(idx)
    /\ UNCHANGED <<Config, exit_code, runVars, files, supported_files, analysis,
                   analysis_results, reply, calls, llm_calls, sinkVars, interrupts>>

\* Download whose handler does not reset content
DownloadKeepsContent ==
    /\ pc = "download"
    /\ LET file_info == supported_files[idx] IN
       /\ fetched' = Append(fetched, file_info.server_relative_url)
       /\ \/ \E b \in Payloads :
               /\ content_bytes' = b
               /\ pc' = "extract"
               /\ UNCHANGED <<content, errors>>
          \/ /\ content_bytes' = NoBytes
             /\ UNCHANGED content
             /\ errors' = ListAppend(errors,
                    ErrorEntry(file_info.name, "Content Extraction Failed",
                               <<"download failed">>))
             /\ pc' = "analyze"
    /\ UNCHANGED <<Config, exit_code, runVars, files, supported_files, idx, analysis,
                   analysis_results, reply, calls, llm_calls, sinkVars, interrupts>>

\* lines 93-105 with download_file: the bytes arrive, or download_file raises and
\* the inner handler records the error
Download ==
    /\ pc = "download"
    /\ LET file_info == supported_files[idx] IN
       /\ fetched' = Append(fetched, file_info.server_relative_url)
       /\ \/ \E b \in Payloads :
               /\ content_bytes' = b
               /\ pc' = "extract"
               /\ UNCHANGED <<content, errors>>
          \/ /\ content_bytes' = NoBytes
             /\ content' = NoText
             /\ errors' = ListAppend(errors,
                    ErrorEntry(file_info.name, "Content Extraction Failed",
                               <<"download failed">>))
             /\ pc' = "analyze"
    /\ UNCHANGED <<Config, exit_code, runVars, files, supported_files, idx, analysis,
                   analysis_results, reply, calls, llm_calls, sinkVars, interrupts>>

\* get_file_content_as_text lines 134-148 returning to line 94
Extract ==
    /\ pc = "extract"
    /\ content' = Text(ExtractText(content_bytes, supported_files[idx].extension))
    /\ pc' = "analyze"
    /\ UNCHANGED <<Config, exit_code, runVars, files, supported_files, idx,
                   content_bytes, analysis, analysis_results, errors, reply, calls,
                   llm_calls, fetched, sinkVars, interrupts>>

\* lines 107-121: analyze with the service or by metadata, append the record
Analyze ==
    /\ pc = "analyze"
    /\ LET file_info == supported_files[idx] IN
       /\ IF HasText(content)
          THEN \E r \in RunReplies :
                 /\ reply' = r
                 /\ llm_calls' = Append(llm_calls,
                       AnalyzeDocumentPrompt(file_info.name, content.text,
                                             DefaultMaxContentLength))
                 /\ calls' = Append(calls,
                       [method |-> "analyze_document", filename |-> file_info.name,
                        arg |-> content.text])
                 /\ analysis' = AnalyzeDocument(file_info.name, content.text,
                                                DefaultMaxContentLength, r)
          ELSE /\ calls' = Append(calls,
                       [method |-> "analyze_file_metadata", filename |-> file_info.name,
                        arg |-> <<file_info.extension>>])
               /\ analysis' = AnalyzeFileMetadata(file_info.name, file_info.extension)
               /\ UNCHANGED <<reply, llm_calls>>
       /\ analysis_results' = ListAppend(analysis_results, ResultEntry(file_info, analysis'))
    /\ idx' = idx + 1
    /\ pc' = AfterFile(idx)
    /\ UNCHANGED <<Config, exit_code, runVars, files, supported_files, content_bytes,
                   content, errors, fetched, sinkVars, interrupts>>

\* AnalyzeRaises without the handler of the file boundary: the exception leaves
\* process_files and reaches main's except Exception
AnalyzeRaisesEscapes ==
    /\ pc = "analyze"
    /\ LET file_info == supported_files[idx] IN
       calls' = Append(calls,
             [method |-> IF HasText(content) THEN "analyze_document"
                         ELSE "analyze_file_metadata",
              filename |-> file_info.name,
              arg |-> IF HasText(content) THEN content.text ELSE <<file_info.extension>>])
    /\ Exit(1)
    /\ UNCHANGED <<Config, runVars, files, supported_files, idx, content_bytes,
                   content, analysis, analysis_results, errors, reply, llm_calls,
                   fetched, sinkVars, interrupts>>

\* lines 123-129: an analyzer handed to process_files raises, the file boundary
\* records the failure and the loop goes on
AnalyzeRaises ==
    /\ pc = "analyze"
    /\ LET file_info == supported_files[idx] IN
       /\ calls' = Append(calls,
             [method |-> IF HasText(content) THEN "analyze_document"
                         ELSE "analyze_file_metadata",
              filename |-> file_info.name,
              arg |-> IF HasText(content) THEN content.text ELSE <<file_info.extension>>])
       /\ errors' = ListAppend(errors,
             ErrorEntry(file_info.name, "Processing Failed", <<"analyzer raised">>))
    /\ idx' = idx + 1
    /\ pc' = AfterFile(idx)
    /\ UNCHANGED <<Config, exit_code, runVars, files, supported_files, content_bytes,
                   content, analysis, analysis_results, reply, llm_calls, fetched,
                   sinkVars, interrupts>>

\* CheckResults that also gives up when any file had an error
CheckResultsStrict ==
    /\ pc = "returned"
    /\ IF analysis_results = <<>> \/ errors # <<>>
       THEN Exit(1) ELSE pc' = "report" /\ UNCHANGED exit_code
    /\ UNCHANGED <<Config, runVars, batchVars, sinkVars, interrupts>>

\* main lines 194-198
CheckResults ==
    /\ pc = "returned"
    /\ IF analysis_results = <<>> THEN Exit(1) ELSE pc' = "report" /\ UNCHANGED exit_code
    /\ UNCHANGED <<Config, runVars, batchVars, sinkVars, interrupts>>

\* main lines 201-207
Report ==
    /\ pc = "report"
    /\ wb' = LET book == CreateReport(NewWorkbook, analysis_results)
             IN IF errors # <<>> THEN AddErrorSheet(book, errors) ELSE book
    /\ pc' = "save"
    /\ UNCHANGED <<Config, exit_code, runVars, batchVars, saved, save_calls, interrupts>>

\* main lines 209-217 with ExcelGenerator.save
Save ==
    /\ pc = "save"
    /\ save_calls' = save_calls + 1
    /\ \/ saved' = wb /\ Exit(0)
       \/ UNCHANGED saved /\ Exit(1)
    /\ UNCHANGED <<Config, runVars, batchVars, wb, interrupts>>

\* the positions of main inside its try block, before the report is saved
TryPcs == {"inputs", "connect", "list", "filter", "download", "extract", "analyze",
           "returned", "report"}

\* a KeyboardInterrupt reaches main's handler, lines 219-221
InterruptPropagates ==
    /\ pc \in TryPcs
    /\ interrupts < MaxInterrupts
    /\ interrupts' = interrupts + 1
    /\ Exit(0)
    /\ UNCHANGED <<Config, runVars, batchVars, sinkVars>>

\* a KeyboardInterrupt arrives inside the try of get_file_content_as_text line 146
\* and the bare except of line 147 takes it
InterruptAbsorbed ==
    /\ pc = "extract"
    /\ ExtractBranch(supported_files[idx].extension) = "other"
    /\ interrupts < MaxInterrupts
    /\ interrupts' = interrupts + 1
    /\ content' = Text(UnableToExtract(supported_files[idx].extension))
    /\ pc' = "analyze"
    /\ UNCHANGED <<Config, exit_code, runVars, files, supported_files, idx,
                   content_bytes, analysis, analysis_results, errors, reply, calls,
                   llm_calls, fetched, sinkVars>>

Next ==
    \/ ValidateConfiguration
    \/ GetInputs
    \/ Connect
    \/ ListFiles
    \/ ListFilesRaises
    \/ Filter
    \/ Download
    \/ Extract
    \/ Analyze
    \/ CheckResults
    \/ Report
    \/ Save
    \/ InterruptPropagates
    \/ InterruptAbsorbed

Spec == Init /\ [][Next]_vars

\* process_files driven with an analyzer object whose methods may raise
NextInjected == Next \/ AnalyzeRaises

SpecInjected == Init /\ [][NextInjected]_vars

(***************************************************************************)
(* analyze_document on its own: every reply text of at most MaxReplyLen    *)
(* tokens.                                                                 *)
(***************************************************************************)
ReplyTokens == {Fence, "json", "\n", "prose"} \cup JsonTokens
Replies ==
    {[kind |-> "error", text |-> <<>>], [kind |-> "none", text |-> <<>>]}
        \cup {[kind |-> "text", text |-> t] : t \in SeqsUpTo(ReplyTokens, MaxReplyLen)}

InitAnalyzer ==
    /\ Config = EnvBasic
    /\ pc = "call"
    /\ exit_code = Running
    /\ sharepoint_url = None
    /\ folder_path = None
    /\ username = None
    /\ password = None
    /\ ctx = None
    /\ ai_client = "OpenAI"
    /\ \E n \in Names : files = <<FileInfo(n, MaxBytes)>>
    /\ supported_files = files
    /\ idx = 1
    /\ content_bytes = NoBytes
    /\ content \in {Text(<<"a">>), Text(<<"a", "\n", "b">>)}
    /\ analysis = [title |-> <<>>, summary |-> <<>>]
    /\ analysis_results = <<>>
    /\ errors = <<>>
    /\ reply \in Replies
    /\ calls = <<>>
    /\ llm_calls = <<>>
    /\ fetched = <<>>
    /\ wb = NoWorkbook
    /\ saved = NoWorkbook
    /\ save_calls = 0
    /\ interrupts = 0

\* ai_analyzer.analyze_document(filename, content) answered with reply
CallAnalyzeDocument ==
    /\ pc = "call"
    /\ llm_calls' = Append(llm_calls,
          AnalyzeDocumentPrompt(files[1].name, content.text, DefaultMaxContentLength))
    /\ calls' = Append(calls,
          [method |-> "analyze_document", filename |-> files[1].name,
           arg |-> content.text])
    /\ analysis' = AnalyzeDocument(files[1].name, content.text,
                                   DefaultMaxContentLength, reply)
    /\ pc' = "called"
    /\ UNCHANGED <<Config, exit_code, runVars, files, supported_files, idx,
                   content_bytes, content, analysis_results, errors, reply, fetched,
                   sinkVars, interrupts>>

NextAnalyzer == CallAnalyzeDocument

SpecAnalyzer == InitAnalyzer /\ [][NextAnalyzer]_vars

(***************************************************************************)
(* Properties of process_files.                                            *)
(***************************************************************************)
\* number of positions of a sequence that satisfy a test
Count(list, Test(_)) == Len(SelectSeq(list, Test))

\* the loop of process_files has started
InBatch == pc \in {"download", "extract", "analyze", "returned"}

\* the eligible files the loop has finished with
Done == SubSeq(supported_files, 1, idx - 1)

\* the file the loop finished last; content_bytes, content and analysis are
\* still those of that file
JustFinished == pc \in {"download", "returned", "report", "save"} /\ idx > 1
LastFile == supported_files[idx - 1]
LastOf(list) == list[Len(list)]

Records(n) == Count(analysis_results, LAMBDA r : r.filename = n)
Failures(n, type) ==
    Count(errors, LAMBDA e : e.filename = n /\ e.error_type = type)

\* C1: every eligible file the loop has finished with has contributed exactly
\* one record or exactly one 'Processing Failed' error: for each name, the
\* records and 'Processing Failed' errors under it are as many as the finished
\* eligible files of that name, and on return every eligible file is finished
C1_OneRecordOrOneFailure ==
    InBatch =>
        /\ \A n \in Names :
              Records(n) + Failures(n, "Processing Failed")
                  = Count(Done, LAMBDA f : f.name = n)
        /\ Len(analysis_results) + Count(errors, LAMBDA e : e.error_type = "Processing Failed")
              = Len(Done)
        /\ pc = "returned" => Done = SelectSeq(files, IsSupported)

C1_Witness ==
    /\ pc = "returned"
    /\ Len(supported_files) = 2
    /\ Len(analysis_results) = 1
    /\ \E i \in DOMAIN errors : errors[i].error_type = "Processing Failed"
    /\ \E i \in DOMAIN errors : errors[i].error_type = "Content Extraction Failed"

\* C2: after an eligible .pdf, .docx or .doc file whose bytes arrived but do not
\* decode, the last error is 'Content Extraction Failed' for that file and the
\* file was analysed by analyze_file_metadata, not by the service
C2_DecodeFailureIsMetadataOnly ==
    (/\ JustFinished
     /\ ExtractBranch(LastFile.extension) \in {"pdf", "docx"}
     /\ content_bytes.ok
     /\ ~content_bytes.valid)
    => /\ errors # <<>>
       /\ LastOf(errors) = ErrorEntry(LastFile.name, "Content Extraction Failed",
                                      LastOf(errors).error_message)
       /\ LastOf(calls).method = "analyze_file_metadata"
       /\ LastOf(calls).filename = LastFile.name

\* es is embedded in fs in order; with strict, no element of fs is used twice
RECURSIVE Embeds(_, _, _)
Embeds(es, fs, strict) ==
    IF es = <<>> THEN TRUE
    ELSE IF fs = <<>> THEN FALSE
    ELSE IF Head(es) = Head(fs)
         THEN Embeds(Tail(es), IF strict THEN Tail(fs) ELSE fs, strict)
         ELSE Embeds(es, Tail(fs), strict)

NamesOf(list) == [i \in DOMAIN list |-> list[i].name]
FilenamesOf(list) == [i \in DOMAIN list |-> list[i].filename]

\* C3: the records and the errors follow the order of the input: the filenames
\* of the records are, in order, filenames of distinct finished eligible files,
\* the filenames of the errors are embedded in the same order, the eligible
\* files are the input in its order, and without a 'Processing Failed' error
\* the records name exactly the finished files, duplicates included
C3_InputOrderPreserved ==
    InBatch =>
        /\ Embeds(FilenamesOf(analysis_results), NamesOf(Done), TRUE)
        /\ Embeds(FilenamesOf(errors), NamesOf(supported_files), FALSE)
        /\ Embeds(supported_files, files, TRUE)
        /\ (\A i \in DOMAIN errors : errors[i].error_type # "Processing Failed")
              => FilenamesOf(analysis_results) = NamesOf(Done)

C3_Witness ==
    /\ pc = "returned"
    /\ Len(files) = 2
    /\ files[1].name # files[2].name
    /\ Len(analysis_results) = 2
    /\ Len(errors) = 2

C3_WitnessDuplicate ==
    /\ pc = "returned"
    /\ Len(supported_files) = 2
    /\ supported_files[1].name = supported_files[2].name
    /\ Len(analysis_results) = 2

Eligible(n) ==
    Count(files, LAMBDA f : /\ f.name = n
                            /\ f.extension \in Range(SUPPORTED_FILE_TYPES)
                            /\ f.size <= MAX_FILE_SIZE_MB * 1024 * 1024)

\* C4: a file with an unsupported extension or a size above the ceiling is never
\* downloaded or analysed and leaves no record and no error, and a file with a
\* supported extension and a size equal to the ceiling is processed: per name,
\* downloads, analyzer calls, records and errors never exceed the eligible files
\* of that name, and on return each was downloaded and analysed once
C4_FilterIsSilent ==
    InBatch =>
        \A n \in Names :
            /\ Count(fetched, LAMBDA u : u = <<"/sites/s/">> \o n) <= Eligible(n)
            /\ Count(calls, LAMBDA c : c.filename = n) <= Eligible(n)
            /\ Records(n) <= Eligible(n)
            /\ Count(errors, LAMBDA e : e.filename = n) <= 2 * Eligible(n)
            /\ \A i \in DOMAIN analysis_results :
                  analysis_results[i].size <= MAX_FILE_SIZE_MB * 1024 * 1024
            /\ pc = "returned" =>
                  /\ Count(fetched, LAMBDA u : u = <<"/sites/s/">> \o n) = Eligible(n)
                  /\ Count(calls, LAMBDA c : c.filename = n) = Eligible(n)

C4_Witness ==
    /\ pc = "returned"
    /\ Len(files) = 2
    /\ files[1].extension \in Range(SUPPORTED_FILE_TYPES)
    /\ files[1].size = MAX_FILE_SIZE_MB * 1024 * 1024 + 1
    /\ files[2].name = files[1].name
    /\ files[2].size = MAX_FILE_SIZE_MB * 1024 * 1024
    /\ Len(analysis_results) = 1
    /\ Len(fetched) = 1

C4_WitnessExtension ==
    /\ pc = "returned"
    /\ Len(files) = 1
    /\ files[1].extension \notin Range(SUPPORTED_FILE_TYPES)
    /\ files[1].size <= MAX_FILE_SIZE_MB * 1024 * 1024
    /\ fetched = <<>> /\ calls = <<>> /\ analysis_results = <<>> /\ errors = <<>>

(***************************************************************************)
(* Properties of analyze_document.                                         *)
(***************************************************************************)
\* the reply is text from which analyze_document obtains a JSON value
ReplyParses == reply.kind = "text" /\ JsonLoadsOk(Unfence(reply.text))
ReplyValue == JsonLoads(Unfence(reply.text))

IsErrorSummary(summary) ==
    Len(summary) = 2 /\ summary[1] = "Error during analysis: " /\ summary[2] # ""

\* C5: analyze_document returns a dictionary whatever the service does, and
\* when the call fails, the reply has no content, or the reply is not JSON (in
\* particular when it holds no JSON value at all), the title is the filename
\* and the summary names the failure
C5_AnalyzeDocumentAbsorbsFailure ==
    pc = "called" =>
        /\ DOMAIN analysis = {"title", "summary"}
        /\ analysis.title # <<>> /\ analysis.summary # <<>>
        /\ (reply.kind \in {"error", "none"} \/ ~ReplyParses)
              => analysis.title = files[1].name /\ IsErrorSummary(analysis.summary)
        /\ (\A i \in DOMAIN reply.text : reply.text[i] \notin JsonTokens)
              => analysis.title = files[1].name /\ IsErrorSummary(analysis.summary)

C5_Witness ==
    /\ pc = "called"
    /\ reply = [kind |-> "text", text |-> <<Fence, "json", "prose", Fence>>]
    /\ analysis.title = files[1].name
    /\ analysis.summary = <<"Error during analysis: ", "JSONDecodeError">>

C5_WitnessCallFails ==
    /\ pc = "called"
    /\ reply.kind = "error"
    /\ analysis.summary = <<"Error during analysis: ", "APIConnectionError">>

\* C6 as claimed: when the reply parses as a JSON object that lacks 'title' or
\* 'summary', the title is the filename and the summary says what went wrong
C6_AbsentFieldGivesFallback ==
    (/\ pc = "called"
     /\ ReplyParses
     /\ JsonIsObject(ReplyValue)
     /\ ~JsonHas(ReplyValue, "title") \/ ~JsonHas(ReplyValue, "summary"))
    => /\ analysis.title = files[1].name
       /\ analysis.summary = UnableSummary \/ IsErrorSummary(analysis.summary)

\* C6 amended: when the reply parses as a JSON object, the title is the
\* object's title, or the filename when 'title' is absent, and the summary is
\* the object's summary, or 'Unable to generate summary' when 'summary' is
\* absent; each field is defaulted on its own
C6_AbsentFieldDefaultedAlone ==
    (pc = "called" /\ ReplyParses /\ JsonIsObject(ReplyValue))
    => /\ analysis.title =
             IF JsonHas(ReplyValue, "title") THEN <<"T">> ELSE files[1].name
       /\ analysis.summary =
             IF JsonHas(ReplyValue, "summary") THEN <<"S">>
             ELSE <<"Unable to generate summary">>

C6_Witness ==
    /\ pc = "called"
    /\ reply = [kind |-> "text", text |-> <<Fence, "json", "{title}", Fence>>]
    /\ analysis.title = <<"T">>
    /\ analysis.summary = <<"Unable to generate summary">>

C6_WitnessNoTitle ==
    /\ pc = "called"
    /\ reply = [kind |-> "text", text |-> <<"\n", "{summary}">>]
    /\ analysis.title = files[1].name
    /\ analysis.summary = <<"S">>

(***************************************************************************)
(* Properties of the degraded path and of the run.                         *)
(***************************************************************************)
\* C7: when download_file raises for an eligible file, the inner handler adds
\* one 'Content Extraction Failed' error for it and leaves no text, the file is
\* analysed by metadata only and its record is appended, so error and record
\* both appear; no download adds more than one error
C7_RetrievalFailureKeepsFile ==
    /\ (pc = "analyze" /\ ~content_bytes.ok) =>
          /\ content.isNone
          /\ errors # <<>>
          /\ LastOf(errors).filename = supported_files[idx].name
          /\ LastOf(errors).error_type = "Content Extraction Failed"
    /\ (JustFinished /\ ~content_bytes.ok) =>
          /\ errors # <<>>
          /\ LastOf(errors).filename = LastFile.name
          /\ LastOf(errors).error_type = "Content Extraction Failed"
          /\ LastOf(calls) = [method |-> "analyze_file_metadata",
                              filename |-> LastFile.name,
                              arg |-> <<LastFile.extension>>]
          /\ analysis_results # <<>>
          /\ LastOf(analysis_results).filename = LastFile.name
          /\ LastOf(analysis_results).title = LastFile.name
          /\ Contains(LastOf(analysis_results).summary, LastFile.extension)
    /\ InBatch => Len(errors) <= Len(fetched)

C7_Witness ==
    /\ pc = "returned"
    /\ Len(supported_files) = 2
    /\ ~content_bytes.ok
    /\ Len(errors) = 1
    /\ Len(analysis_results) = 2
    /\ errors[1].filename = analysis_results[2].filename

\* the text is present and has a character that is not white space
NonBlank(c) == ~c.isNone /\ \E i \in DOMAIN c.text : ~IsSpace(c.text[i])

\* C8: a finished file was analysed by analyze_document exactly when its text
\* was present and not blank; otherwise analyze_file_metadata was called with
\* the extension, sent nothing to the service, and returned the filename as
\* title and a summary containing the extension
C8_AnalyzerByText ==
    JustFinished =>
        /\ Len(calls) = idx - 1
        /\ LastOf(calls).filename = LastFile.name
        /\ LastOf(calls).method = "analyze_document" <=> NonBlank(content)
        /\ NonBlank(content) => LastOf(calls).arg = content.text
        /\ ~NonBlank(content) =>
              /\ LastOf(calls).method = "analyze_file_metadata"
              /\ LastOf(calls).arg = <<LastFile.extension>>
              /\ analysis.title = LastFile.name
              /\ Contains(analysis.summary, LastFile.extension)
        /\ Len(llm_calls) = Count(calls, LAMBDA c : c.method = "analyze_document")

C8_Witness ==
    /\ JustFinished
    /\ ~content.isNone
    /\ content.text # <<>>
    /\ ~NonBlank(content)
    /\ LastOf(calls).method = "analyze_file_metadata"
    /\ llm_calls = <<>>

C8_WitnessText ==
    /\ JustFinished
    /\ NonBlank(content)
    /\ LastOf(calls).method = "analyze_document"
    /\ Len(llm_calls) = 1

\* C9: once a KeyboardInterrupt has arrived the run is over with no file
\* processed further, and ExcelGenerator.save is never called
C9_InterruptDiscardsRun ==
    interrupts > 0 =>
        /\ pc = "done"
        /\ save_calls = 0
        /\ saved = NoWorkbook

SaveFailed == save_calls > 0 /\ saved = NoWorkbook

\* C10 as claimed: the exit status is non-zero only when the configuration is
\* invalid (a folder that cannot be listed counted with it) or the report
\* could not be written, and a run with per-file errors that is not
\* interrupted ends normally with a report unless the save fails
C10_AbnormalOnlyForSinkOrConfig ==
    /\ (pc = "done" /\ exit_code = 1) =>
          \/ Validate(Config) # <<>>
          \/ (ctx # None /\ files = <<>> /\ idx = 0)
          \/ SaveFailed
    /\ (pc = "done" /\ errors # <<>> /\ interrupts = 0)
          => (SaveFailed \/ (exit_code = 0 /\ saved # NoWorkbook))

\* C10 amended: the exit status is non-zero only when the configuration is
\* invalid, the folder listing raises, process_files returns no record, or the
\* report could not be written; a run that is not interrupted and has at least
\* one record always reaches save, whatever errors the files had, and ends
\* normally exactly when the report was written
C10_AbnormalExits ==
    /\ (pc = "done" /\ exit_code = 1) =>
          \/ Validate(Config) # <<>>
          \/ (ctx # None /\ files = <<>> /\ idx = 0)
          \/ (idx > 0 /\ analysis_results = <<>> /\ save_calls = 0)
          \/ SaveFailed
    /\ (pc = "done" /\ analysis_results # <<>> /\ interrupts = 0) =>
          /\ save_calls = 1
          /\ exit_code = 0 <=> (saved = wb /\ saved # NoWorkbook)

C10_Witness ==
    /\ pc = "done"
    /\ exit_code = 1
    /\ Validate(Config) = <<>>
    /\ Len(files) = 2
    /\ supported_files = <<>>
    /\ save_calls = 0

C10_WitnessErrors ==
    /\ pc = "done"
    /\ exit_code = 0
    /\ Len(errors) = 2
    /\ Len(saved.error_rows) = 2

(***************************************************************************)
(* Termination of process_files.  main is one thread: a step that can be   *)
(* taken is taken, a call to a collaborator returns or raises.  An         *)
(* interrupt may arrive or not.                                            *)
(***************************************************************************)
ProgramStep ==
    \/ ValidateConfiguration
    \/ GetInputs
    \/ Connect
    \/ ListFiles
    \/ ListFilesRaises
    \/ Filter
    \/ Download
    \/ Extract
    \/ Analyze
    \/ AnalyzeRaises
    \/ CheckResults
    \/ Report
    \/ Save

SpecInjectedFair == Init /\ [][NextInjected]_vars /\ WF_vars(ProgramStep)

\* C11: once process_files is entered it returns, unless a KeyboardInterrupt
\* ended the run; nothing but the interrupt takes the run out of the loop, and
\* on return every eligible file was downloaded once and analysed once, in
\* order, whatever failed
C11_ProcessFilesReturns ==
    /\ (pc = "filter") ~> (pc = "returned" \/ (pc = "done" /\ interrupts > 0))
    /\ [](pc = "returned" =>
            /\ idx = Len(supported_files) + 1
            /\ supported_files = SelectSeq(files, IsSupported)
            /\ fetched = [i \in DOMAIN supported_files |->
                            supported_files[i].server_relative_url]
            /\ NamesOf(supported_files) = FilenamesOf(calls))
    /\ []((pc = "done" /\ idx > 0 /\ save_calls = 0 /\ interrupts = 0)
            => (exit_code = 1 /\ analysis_results = <<>>
                  /\ idx = Len(supported_files) + 1))

C11_Witness ==
    /\ pc = "returned"
    /\ interrupts = 0
    /\ Len(supported_files) = 2
    /\ Len(errors) = 3
    /\ analysis_results = <<>>

(***************************************************************************)
(* analyze_document on texts whose length is around the default            *)
(* max_content_length.                                                     *)
(***************************************************************************)
\* the character at position i of a long document
CharAt(i) ==
    IF i = 1 THEN "h"
    ELSE IF i = DefaultMaxContentLength THEN "x"
    ELSE IF i > DefaultMaxContentLength THEN "z"
    ELSE "a"

LongText(n) == [i \in 1..n |-> CharAt(i)]

TextLengths ==
    {1} \cup ((DefaultMaxContentLength - MaxOver)..(DefaultMaxContentLength + MaxOver))

InitTruncation ==
    /\ Config = EnvBasic
    /\ pc = "call"
    /\ exit_code = Running
    /\ sharepoint_url = None
    /\ folder_path = None
    /\ username = None
    /\ password = None
    /\ ctx = None
    /\ ai_client = "OpenAI"
    /\ \E n \in Names : files = <<FileInfo(n, MaxBytes)>>
    /\ supported_files = files
    /\ idx = 1
    /\ content_bytes = NoBytes
    /\ \E n \in TextLengths : content = Text(LongText(n))
    /\ analysis = [title |-> <<>>, summary |-> <<>>]
    /\ analysis_results = <<>>
    /\ errors = <<>>
    /\ reply \in RunReplies
    /\ calls = <<>>
    /\ llm_calls = <<>>
    /\ fetched = <<>>
    /\ wb = NoWorkbook
    /\ saved = NoWorkbook
    /\ save_calls = 0
    /\ interrupts = 0

SpecTruncation == InitTruncation /\ [][NextAnalyzer]_vars

\* the document content inside a prompt: what follows the filename line and
\* precedes the closing instructions
SentContent(prompt) == SubSeq(prompt, 5, Len(prompt) - 1)

\* C12: the prompt sent for a text longer than 8000 characters holds its first
\* 8000 characters followed by the truncation marker, and the prompt sent for
\* a text of at most 8000 characters holds the text unchanged, without marker
C12_TruncatedBeforeSending ==
    pc = "called" =>
        LET sent == SentContent(LastOf(llm_calls)) IN
        /\ Len(llm_calls) = 1
        /\ IF Len(content.text) > 8000
           THEN /\ Len(sent) = 8001
                /\ SubSeq(sent, 1, 8000) = SubSeq(content.text, 1, 8000)
                /\ sent[8001] = "\n... [content truncated]"
           ELSE /\ sent = content.text
                /\ ~Contains(sent, "\n... [content truncated]")

C12_Witness ==
    /\ pc = "called"
    /\ Len(content.text) = 8002
    /\ Len(SentContent(LastOf(llm_calls))) = 8001
    /\ SentContent(LastOf(llm_calls))[8000] = "x"

C12_WitnessAtLimit ==
    /\ pc = "called"
    /\ Len(content.text) = 8000
    /\ SentContent(LastOf(llm_calls)) = content.text

(***************************************************************************)
(* Properties of the report and of the configuration.                      *)
(***************************************************************************)
\* C13: a workbook that main has built, and a report that was saved, has the
\* sheet 'Errors' exactly when process_files returned at least one error, and
\* the rows of that sheet are the errors in the order they were returned
C13_ErrorSheetFollowsErrors ==
    \A book \in {wb, saved} :
        book # NoWorkbook =>
            /\ Contains(book.sheets, "Errors") <=> errors # <<>>
            /\ Len(book.error_rows) = Len(errors)
            /\ \A i \in DOMAIN errors :
                  book.error_rows[i] = <<errors[i].filename, errors[i].error_type,
                                         errors[i].error_message>>
            /\ Len(book.rows) = Len(analysis_results)

C13_Witness ==
    /\ pc = "done"
    /\ saved # NoWorkbook
    /\ saved.sheets = <<"File Analysis", "Errors">>
    /\ Len(saved.error_rows) = 2
    /\ saved.error_rows[1][1] # saved.error_rows[2][1]

C13_WitnessNoErrors ==
    /\ pc = "done"
    /\ saved # NoWorkbook
    /\ errors = <<>>
    /\ saved.sheets = <<"File Analysis">>

\* C14: a run that finds no SharePoint configuration in the environment (the
\* AI credentials being set) and is not interrupted has, when it ends, asked
\* the operator for site url, username and password and connected with them
C14_PromptsWhenNoConfiguration ==
    (/\ pc = "done"
     /\ interrupts = 0
     /\ ~(Truthy(Config.SHAREPOINT_SITE_URL)
            /\ (Truthy(Config.SHAREPOINT_USERNAME) \/ Truthy(Config.SHAREPOINT_CLIENT_ID)))
     /\ Truthy(Config.OPENAI_API_KEY))
    => /\ Truthy(sharepoint_url)
       /\ username = "typed-user"
       /\ password = "typed-password"
       /\ ctx = "UserCredential"

====
